---- MODULE Spec2Model ----
(***************************************************************************)
(* Patient registry (src/pro.py): a Streamlit script backed by one CSV     *)
(* file.  Text is modelled as sequences of one-character strings so that   *)
(* strip, lower, isdigit, CSV type inference and ISO date formatting are   *)
(* computed the way the code computes them.  Integers read from the CSV    *)
(* file are held as canonical decimal numerals (no leading zeros): a       *)
(* 10-digit mobile number fits in int64 but not in a model integer.        *)
(***************************************************************************)
EXTENDS Integers, Sequences, FiniteSets, TLC

(***************************************************************************)
(* Characters and strings                                                  *)
(***************************************************************************)
DigitChars == <<"0", "1", "2", "3", "4", "5", "6", "7", "8", "9">>

AsciiDigits == {DigitChars[i] : i \in 1..10}

\* Code points for which str.isdigit() is true although they are not 0-9:
\* U+0663 ARABIC-INDIC DIGIT THREE, U+00B2 SUPERSCRIPT TWO.
UnicodeDigits == {"U0663", "U00B2"}

\* Characters removed by str.strip().
Whitespace == {" ", "TAB"}

UpperChars == <<"A", "B", "C", "D", "E", "F", "G", "H", "I", "J", "K", "L", "M",
                "N", "O", "P", "Q", "R", "S", "T", "U", "V", "W", "X", "Y", "Z">>

LowerChars == <<"a", "b", "c", "d", "e", "f", "g", "h", "i", "j", "k", "l", "m",
                "n", "o", "p", "q", "r", "s", "t", "u", "v", "w", "x", "y", "z">>

Range(s) == {s[i] : i \in DOMAIN s}

\* str.lower() on one character.
LowerChar(c) ==
    IF \E i \in 1..26 : UpperChars[i] = c
    THEN LowerChars[CHOOSE i \in 1..26 : UpperChars[i] = c]
    ELSE c

\* str.lower()
Lower(s) == [i \in 1..Len(s) |-> LowerChar(s[i])]

\* str.strip(): drop leading and trailing whitespace.
Strip(s) ==
    LET keep == {i \in 1..Len(s) : s[i] \notin Whitespace}
    IN  IF keep = {} THEN <<>>
        ELSE LET lo == CHOOSE i \in keep : \A j \in keep : i <= j
                 hi == CHOOSE i \in keep : \A j \in keep : j <= i
             IN  SubSeq(s, lo, hi)

\* str.isdigit(): non-empty and every character is a (Unicode) digit.
IsDigit(s) == Len(s) > 0 /\ \A i \in 1..Len(s) : s[i] \in AsciiDigits \cup UnicodeDigits

\* ^[0-9]+$
IsAsciiDigits(s) == Len(s) > 0 /\ \A i \in 1..Len(s) : s[i] \in AsciiDigits

DigitVal(c) == (CHOOSE i \in 1..10 : DigitChars[i] = c) - 1

\* Value of a short all-digit string (dates only: at most four digits).
RECURSIVE NatOf(_)
NatOf(s) == IF Len(s) = 0 THEN 0
            ELSE 10 * NatOf(SubSeq(s, 1, Len(s) - 1)) + DigitVal(s[Len(s)])

\* n written with exactly w digits, zero padded (w <= 4).
RECURSIVE Pad(_, _)
Pad(n, w) == IF w = 0 THEN <<>>
             ELSE Pad(n \div 10, w - 1) \o <<DigitChars[(n % 10) + 1]>>

\* The decimal numeral of the integer a digit string denotes: leading zeros
\* dropped, one digit kept.
RECURSIVE Canon(_)
Canon(s) == IF Len(s) > 1 /\ s[1] = "0" THEN Canon(Tail(s)) ELSE s

\* Order of two canonical numerals.
RECURSIVE LexLE(_, _)
LexLE(a, b) ==
    IF Len(a) = 0 THEN TRUE
    ELSE IF DigitVal(a[1]) < DigitVal(b[1]) THEN TRUE
    ELSE IF DigitVal(a[1]) > DigitVal(b[1]) THEN FALSE
    ELSE LexLE(Tail(a), Tail(b))

NumLE(a, b) == Len(a) < Len(b) \/ (Len(a) = Len(b) /\ LexLE(a, b))

NumLT(a, b) == NumLE(a, b) /\ a # b

(***************************************************************************)
(* Cell values of a DataFrame                                              *)
(***************************************************************************)
\* One record shape for every kind of value: k is the kind, s the text or
\* numeral, (y, m, d) the calendar date of a datetime.date.
MkCell(k, s, y, m, d) == [k |-> k, s |-> s, y |-> y, m |-> m, d |-> d]

StrCell(s) == MkCell("str", s, 0, 0, 0)

IntCell(s) == MkCell("int", s, 0, 0, 0)

FloatCell(s) == MkCell("float", s, 0, 0, 0)

NaN == MkCell("nan", <<>>, 0, 0, 0)

NaT == MkCell("nat", <<>>, 0, 0, 0)

DateCell(y, m, d) == MkCell("date", <<>>, y, m, d)

\* pandas isna / dropna / checknull
IsNull(c) == c.k \in {"nan", "nat"}

IsLeap(y) == (y % 4 = 0 /\ y % 100 # 0) \/ y % 400 = 0

DaysIn(y, m) ==
    IF m = 2 THEN (IF IsLeap(y) THEN 29 ELSE 28)
    ELSE IF m \in {4, 6, 9, 11} THEN 30 ELSE 31

\* A date writer that puts the day before the month.
IsoFormatDayFirst(c) == Pad(c.y, 4) \o <<"-">> \o Pad(c.d, 2) \o <<"-">> \o Pad(c.m, 2)

\* date.isoformat(): YYYY-MM-DD
IsoFormat(c) == Pad(c.y, 4) \o <<"-">> \o Pad(c.m, 2) \o <<"-">> \o Pad(c.d, 2)

\* A string pd.to_datetime parses as a calendar date in the datetime64[ns]
\* range (full years 1678..2261).  Only the ISO form is modelled; every
\* other string of the model's alphabet is coerced to NaT.
IsIsoDate(s) ==
    /\ Len(s) = 10
    /\ s[5] = "-" /\ s[8] = "-"
    /\ \A i \in {1, 2, 3, 4, 6, 7, 9, 10} : s[i] \in AsciiDigits
    /\ LET y == NatOf(SubSeq(s, 1, 4))
           m == NatOf(SubSeq(s, 6, 7))
           d == NatOf(SubSeq(s, 9, 10))
       IN  y \in 1678..2261 /\ m \in 1..12 /\ d \in 1..DaysIn(y, m)

\* One element of pd.to_datetime(col, errors="coerce").dt.date
ToDate(c) ==
    CASE c.k = "date" -> c
      [] c.k = "str" ->
            IF IsIsoDate(c.s)
            THEN DateCell(NatOf(SubSeq(c.s, 1, 4)), NatOf(SubSeq(c.s, 6, 7)),
                          NatOf(SubSeq(c.s, 9, 10)))
            ELSE NaT
      \* numbers are nanoseconds since the epoch: below one day for 10 digits
      [] c.k \in {"int", "float"} -> DateCell(1970, 1, 1)
      [] OTHER -> NaT

DateLE(a, b) ==
    \/ a.y < b.y
    \/ a.y = b.y /\ a.m < b.m
    \/ a.y = b.y /\ a.m = b.m /\ a.d <= b.d

\* What DataFrame.to_csv writes for a value (NaN and NaT as the empty field).
CellText(c) ==
    CASE c.k \in {"str", "int"} -> c.s
      [] c.k = "float" -> c.s \o <<".", "0">>
      [] c.k = "date" -> IsoFormat(c)
      [] OTHER -> <<>>

\* One element of Series.astype(str)
AsStr(c) ==
    CASE c.k \in {"str", "int"} -> c.s
      [] c.k = "float" -> c.s \o <<".", "0">>
      [] c.k = "date" -> IsoFormat(c)
      [] c.k = "nan" -> <<"n", "a", "n">>
      [] OTHER -> <<"N", "a", "T">>

(***************************************************************************)
(* The store: CSV file, load_data, save_data, append_row                   *)
(***************************************************************************)
EXPECTED_COLS == <<"Entry Date", "Doctor Name", "Area Code", "City",
                   "Patient Name", "Mobile No", "Disease", "Goal Amount">>

\* The file on disk: header line and text fields, or no file.
NoFile == [exists |-> FALSE, header |-> <<>>, rows |-> <<>>]

\* Fields pd.read_csv reads as missing (default na_values, all versions).
NaValues == { <<>>, <<"N", "A">>, <<"N", "/", "A">>, <<"n", "/", "a">>,
              <<"N", "a", "N">>, <<"n", "a", "n">>, <<"N", "U", "L", "L">>,
              <<"n", "u", "l", "l">>, <<"#", "N", "A">>, <<"<", "N", "A", ">">> }

\* Integer and float fields as the C parser recognises them, restricted to
\* unsigned digits and to floats with fraction ".0" (what to_csv writes for
\* the integral floats of the model).
IsIntText(t) == IsAsciiDigits(t) /\ Len(t) <= 18

IsFloatText(t) ==
    /\ Len(t) >= 3
    /\ SubSeq(t, Len(t) - 1, Len(t)) = <<".", "0">>
    /\ IsIntText(SubSeq(t, 1, Len(t) - 2))

\* dtype read_csv infers for a column from all of its fields.
InferDtype(texts) ==
    LET vals == {i \in 1..Len(texts) : texts[i] \notin NaValues}
    IN  IF Len(texts) = 0 THEN "object"
        ELSE IF vals = {} THEN "float64"
        ELSE IF \A i \in vals : IsIntText(texts[i])
             THEN (IF Cardinality(vals) = Len(texts) THEN "int64" ELSE "float64")
        ELSE IF \A i \in vals : IsIntText(texts[i]) \/ IsFloatText(texts[i])
             THEN "float64"
        ELSE "object"

ParseCell(t, dtype) ==
    IF t \in NaValues THEN NaN
    ELSE IF dtype = "int64" THEN IntCell(Canon(t))
    ELSE IF dtype = "float64"
         THEN FloatCell(Canon(IF IsIntText(t) THEN t ELSE SubSeq(t, 1, Len(t) - 2)))
    ELSE StrCell(t)

IndexOf(seq, x) == CHOOSE i \in 1..Len(seq) : seq[i] = x

\* dtype of every column of the file.
Dtypes(f) ==
    [c \in Range(f.header) |->
        InferDtype([i \in 1..Len(f.rows) |-> f.rows[i][IndexOf(f.header, c)]])]

ParseRows(f, dt) ==
    [i \in 1..Len(f.rows) |->
        [c \in Range(f.header) |-> ParseCell(f.rows[i][IndexOf(f.header, c)], dt[c])]]

\* pd.read_csv(CSV_FILE)
ReadCsv(f) == [cols |-> f.header, dtype |-> Dtypes(f), rows |-> ParseRows(f, Dtypes(f))]

\* A column repair that adds the missing columns but keeps the file's order
\* and its extra columns.
EnsureColumnsKeepOrder(df) ==
    [cols |-> df.cols \o SelectSeq(EXPECTED_COLS, LAMBDA c : c \notin Range(df.cols)),
     dtype |-> [c \in Range(df.cols) \cup Range(EXPECTED_COLS) |->
                  IF c \in Range(df.cols) THEN df.dtype[c] ELSE "object"],
     rows |-> [i \in 1..Len(df.rows) |->
                 [c \in Range(df.cols) \cup Range(EXPECTED_COLS) |->
                    IF c \in Range(df.cols) THEN df.rows[i][c] ELSE StrCell(<<>>)]]]

\* ensure_columns: add each missing expected column as "", then df[EXPECTED_COLS].
EnsureColumns(df) ==
    LET have == Range(df.cols)
        exp == Range(EXPECTED_COLS)
    IN  [cols |-> EXPECTED_COLS,
         dtype |-> [c \in exp |-> IF c \in have THEN df.dtype[c] ELSE "object"],
         rows |-> [i \in 1..Len(df.rows) |->
                     [c \in exp |-> IF c \in have THEN df.rows[i][c] ELSE StrCell(<<>>)]]]

\* df["Entry Date"] = pd.to_datetime(df["Entry Date"], errors="coerce").dt.date
ParseDates(raw) ==
    IF "Entry Date" \in Range(raw.cols)
    THEN [raw EXCEPT
            !.dtype["Entry Date"] = "object",
            !.rows = [i \in 1..Len(raw.rows) |->
                        [raw.rows[i] EXCEPT !["Entry Date"] = ToDate(@)]]]
    ELSE raw

\* pd.DataFrame(columns=EXPECTED_COLS)
EmptyFrame ==
    [cols |-> EXPECTED_COLS,
     dtype |-> [c \in Range(EXPECTED_COLS) |-> "object"],
     rows |-> <<>>]

\* load_data
LoadData(f) == IF f.exists THEN EnsureColumns(ParseDates(ReadCsv(f))) ELSE EmptyFrame

\* The lambda of save_data: isoformat for date and datetime instances.
\* pd.NaT is an instance of datetime and its isoformat() is "NaT".
IsoOrSame(c) ==
    CASE c.k = "date" -> StrCell(IsoFormat(c))
      [] c.k = "nat" -> StrCell(<<"N", "a", "T">>)
      [] OTHER -> c

\* The field to_csv writes for column c of a row, after save_data's conversion.
SavedText(c, v) == CellText(IF c = "Entry Date" THEN IsoOrSame(v) ELSE v)

\* save_data: the CSV written by to_csv(index=False).  The Excel mirror is
\* best effort and never read back.
SaveData(df) ==
    [exists |-> TRUE,
     header |-> df.cols,
     rows |-> [i \in 1..Len(df.rows) |->
                 [j \in 1..Len(df.cols) |-> SavedText(df.cols[j], df.rows[i][df.cols[j]])]]]

\* Result dtype of a column when two frames are concatenated.
CommonDtype(a, b) ==
    IF a = b THEN a
    ELSE IF {a, b} = {"int64", "float64"} THEN "float64"
    ELSE "object"

CastCell(c, dtype) == IF dtype = "float64" /\ c.k = "int" THEN FloatCell(c.s) ELSE c

\* pd.concat([df, row_df], ignore_index=True) for frames with the same columns.
Concat(df, rowdf) ==
    [cols |-> df.cols,
     dtype |-> [c \in Range(df.cols) |-> CommonDtype(df.dtype[c], rowdf.dtype[c])],
     rows |-> [i \in 1..(Len(df.rows) + Len(rowdf.rows)) |->
                 [c \in Range(df.cols) |->
                    CastCell(IF i <= Len(df.rows) THEN df.rows[i][c]
                             ELSE rowdf.rows[i - Len(df.rows)][c],
                             CommonDtype(df.dtype[c], rowdf.dtype[c]))]]]

\* append_row: load, concat, save.
AppendRow(f, rowdf) == SaveData(Concat(LoadData(f), rowdf))

\* The elements of a sequence outside a set of positions, in order.
RECURSIVE DropSeq(_, _)
DropSeq(seq, labels) ==
    IF Len(seq) = 0 THEN <<>>
    ELSE IF Len(seq) \in labels THEN DropSeq(SubSeq(seq, 1, Len(seq) - 1), labels)
    ELSE Append(DropSeq(SubSeq(seq, 1, Len(seq) - 1), labels), seq[Len(seq)])

\* df.drop(labels).reset_index(drop=True); labels are 1-based positions here.
Drop(df, labels) == [df EXCEPT !.rows = DropSeq(df.rows, labels)]

(***************************************************************************)
(* Validation and the candidate record                                     *)
(***************************************************************************)
\* valid_text
ValidText(s) == Len(Strip(s)) >= 3

\* valid_mobile
ValidMobile(s) == IsDigit(s) /\ Len(s) = 10

\* isinstance(x, (int, float)) for the value of a number_input
IsNumeric(c) == c.k \in {"int", "float"}

ErrDoctor == "Doctor's Name must be at least 3 characters."

ErrArea == "Area Code must be numeric."

ErrCity == "City must be at least 3 characters."

ErrPatient == "Patient's Name must be at least 3 characters."

ErrMobile == "Mobile number must be exactly 10 digits."

ErrDisease == "Disease must be at least 3 characters."

ErrGoal == "Goal Amount must be numeric."

\* A validation that stops at the first failing field.
ValidateFailFast(form) ==
    IF ~ValidText(form.dr_name) THEN <<ErrDoctor>>
    ELSE IF ~IsNumeric(form.area_code) THEN <<ErrArea>>
    ELSE IF ~ValidText(form.city) THEN <<ErrCity>>
    ELSE IF ~ValidText(form.patient_name) THEN <<ErrPatient>>
    ELSE IF ~ValidMobile(form.mobile_no) THEN <<ErrMobile>>
    ELSE IF ~ValidText(form.disease) THEN <<ErrDisease>>
    ELSE IF ~IsNumeric(form.goal_amount) THEN <<ErrGoal>>
    ELSE <<>>

\* The validation block of the submit handler: the list `errors`.
Validate(form) ==
    (IF ~ValidText(form.dr_name) THEN <<ErrDoctor>> ELSE <<>>)
    \o (IF ~IsNumeric(form.area_code) THEN <<ErrArea>> ELSE <<>>)
    \o (IF ~ValidText(form.city) THEN <<ErrCity>> ELSE <<>>)
    \o (IF ~ValidText(form.patient_name) THEN <<ErrPatient>> ELSE <<>>)
    \o (IF ~ValidMobile(form.mobile_no) THEN <<ErrMobile>> ELSE <<>>)
    \o (IF ~ValidText(form.disease) THEN <<ErrDisease>> ELSE <<>>)
    \o (IF ~IsNumeric(form.goal_amount) THEN <<ErrGoal>> ELSE <<>>)

\* new_row: the one-row frame built from the validated form.
NewRowCell(form, c) ==
    CASE c = "Entry Date" -> form.entry_date
      [] c = "Doctor Name" -> StrCell(Strip(form.dr_name))
      [] c = "Area Code" -> IntCell(form.area_code.s)
      [] c = "City" -> StrCell(Strip(form.city))
      [] c = "Patient Name" -> StrCell(Strip(form.patient_name))
      [] c = "Mobile No" -> StrCell(Strip(form.mobile_no))
      [] c = "Disease" -> StrCell(Strip(form.disease))
      [] OTHER -> IntCell(form.goal_amount.s)

NewRow(form) ==
    [cols |-> EXPECTED_COLS,
     dtype |-> [c \in Range(EXPECTED_COLS) |->
                  IF c \in {"Area Code", "Goal Amount"} THEN "int64" ELSE "object"],
     rows |-> << [c \in Range(EXPECTED_COLS) |-> NewRowCell(form, c)] >>]

\* mask_dup: the positions of df_existing reported as duplicates of the form.
MaskDup(df, form) ==
    {i \in 1..Len(df.rows) :
        /\ Lower(AsStr(df.rows[i]["Doctor Name"])) = Lower(Strip(form.dr_name))
        /\ Lower(AsStr(df.rows[i]["Patient Name"])) = Lower(Strip(form.patient_name))
        /\ AsStr(df.rows[i]["Mobile No"]) = Strip(form.mobile_no)}

(***************************************************************************)
(* One run of the script                                                   *)
(*                                                                         *)
(* Streamlit reruns the whole script on every interaction.  A button, and  *)
(* the form's submit button, returns True only in the run its own click    *)
(* started, so at most one of them is True in a run: `trigger` names it.   *)
(***************************************************************************)
Triggers == {"submit", "dupDelete", "dupKeep", "dupCancel", "delete", "rerun"}

\* What a run reports when the form section does nothing.
NoForm(f) ==
    [file |-> f, errors |-> <<>>, valid |-> FALSE, dup |-> {},
     dupButtons |-> FALSE, removed |-> {}, appended |-> FALSE, msg |-> "none"]

\* Lines 157-192: duplicate detection and the three buttons.  The buttons
\* are created in a run that took the submit branch; each returns True only
\* in a run its own click started.
Resolve(f, trigger, df_existing, new_row, dup) ==
    IF dup # {}
    THEN IF trigger = "dupDelete"
         THEN [NoForm(f) EXCEPT
                 !.file = SaveData(Concat(Drop(df_existing, dup), new_row)),
                 !.valid = TRUE, !.dup = dup, !.dupButtons = TRUE,
                 !.removed = dup, !.appended = TRUE,
                 !.msg = "duplicates removed and saved"]
         ELSE IF trigger = "dupKeep"
         THEN [NoForm(f) EXCEPT
                 !.file = AppendRow(f, new_row),
                 !.valid = TRUE, !.dup = dup, !.dupButtons = TRUE,
                 !.appended = TRUE, !.msg = "saved, duplicates retained"]
         ELSE IF trigger = "dupCancel"
         THEN [NoForm(f) EXCEPT
                 !.valid = TRUE, !.dup = dup, !.dupButtons = TRUE, !.msg = "canceled"]
         ELSE [NoForm(f) EXCEPT
                 !.valid = TRUE, !.dup = dup, !.dupButtons = TRUE,
                 !.msg = "duplicates found"]
    ELSE [NoForm(f) EXCEPT
            !.file = AppendRow(f, new_row), !.valid = TRUE,
            !.appended = TRUE, !.msg = "saved"]

\* Lines 123-192: the form section.  Returns the file it leaves, what it
\* rendered, and which rows it removed and whether it appended the candidate.
FormSection(f, trigger, form) ==
    IF trigger # "submit" THEN NoForm(f)
    ELSE IF Validate(form) # <<>>
    THEN [NoForm(f) EXCEPT !.errors = Validate(form), !.msg = "correct the errors"]
    ELSE Resolve(f, trigger, LoadData(f), NewRow(form), MaskDup(LoadData(f), form))

\* Lines 206-220: the delete button, created when rows are selected.
DeleteSelected(a, df, delete_rows, trigger) ==
    IF Len(df.rows) > 0 /\ delete_rows # {} /\ trigger = "delete"
    THEN [a EXCEPT !.file = SaveData(Drop(df, delete_rows)), !.removed = delete_rows,
                   !.msg = "deleted"]
         @@ [delButton |-> TRUE, sel |-> delete_rows]
    ELSE a @@ [delButton |-> Len(df.rows) > 0 /\ delete_rows # {}, sel |-> delete_rows]

\* Lines 198-220: the registry section on the file the form section left.
\* The multiselect keeps its selection only while its options are unchanged.
RegistrySection(f0, a, trigger, sel) ==
    DeleteSelected(a, LoadData(a.file), IF a.file = f0 THEN sel ELSE {}, trigger)

\* The whole script, top to bottom.
RunScript(f, trigger, form, sel) ==
    RegistrySection(f, FormSection(f, trigger, form), trigger, sel)

(***************************************************************************)
(* The sidebar filters (lines 224-290)                                     *)
(***************************************************************************)
\* Most distinct values a text column may have to get a multiselect.
MaxOptions == 50

\* A sidebar widget: what identifies it (column, kind, range or options) and
\* the value it holds.  Streamlit keeps a widget's value from run to run
\* only while the arguments it is created with are the same.
Widget(col, kind, lo, hi, opts, vlo, vhi, partial, vset, vchk, vtxt) ==
    [col |-> col, kind |-> kind, lo |-> lo, hi |-> hi, opts |-> opts,
     vlo |-> vlo, vhi |-> vhi, partial |-> partial, vset |-> vset,
     vchk |-> vchk, vtxt |-> vtxt]

\* st.sidebar.date_input(..., value=(min_d, max_d))
DateWidget(col, lo, hi) == Widget(col, "date", lo, hi, {}, lo, hi, FALSE, {}, FALSE, <<>>)

\* st.sidebar.slider(..., value=(min_val, max_val))
SliderWidget(col, lo, hi) == Widget(col, "slider", lo, hi, {}, lo, hi, FALSE, {}, FALSE, <<>>)

\* st.sidebar.checkbox(f"Filter {col} == {min_val}", value=False)
CheckboxWidget(col, v) == Widget(col, "checkbox", v, v, {}, v, v, FALSE, {}, FALSE, <<>>)

\* st.sidebar.multiselect(col, options=opts, default=opts)
MultiWidget(col, opts) == Widget(col, "multiselect", NaN, NaN, opts, NaN, NaN, FALSE, opts, FALSE, <<>>)

\* st.sidebar.text_input(f"Filter text in {col}")
TextWidget(col) == Widget(col, "text", NaN, NaN, {}, NaN, NaN, FALSE, {}, FALSE, <<>>)

SameWidget(a, b) ==
    a.col = b.col /\ a.kind = b.kind /\ a.lo = b.lo /\ a.hi = b.hi /\ a.opts = b.opts

\* The widget as the run sees it: with the value the session holds for it,
\* or as created when the session holds none.
Current(prev, fresh) ==
    IF \E k \in 1..Len(prev) : SameWidget(prev[k], fresh)
    THEN prev[CHOOSE k \in 1..Len(prev) : SameWidget(prev[k], fresh)]
    ELSE fresh

MinDate(ds) == CHOOSE x \in ds : \A y \in ds : DateLE(x, y)

MaxDate(ds) == CHOOSE x \in ds : \A y \in ds : DateLE(y, x)

MinNum(vs) == CHOOSE x \in vs : \A y \in vs : NumLE(x.s, y.s)

MaxNum(vs) == CHOOSE x \in vs : \A y \in vs : NumLE(y.s, x.s)

\* re.search(pat, s, re.IGNORECASE) for patterns of literal characters and
\* ".", which matches any character: Series.str.contains treats its
\* argument as a regular expression.
RegexSearch(pat, s) ==
    \E start \in 1..(Len(s) - Len(pat) + 1) :
        \A k \in 1..Len(pat) :
            pat[k] = "." \/ LowerChar(pat[k]) = LowerChar(s[start + k - 1])

\* filtered[col].dropna(): the positions in view with a value in col.
NonNull(df, view, col) == {i \in Range(view) : ~IsNull(df.rows[i][col])}

\* pd.to_datetime(filtered["Entry Date"], errors="coerce").dropna().dt.date
ViewDates(df, view) == {ToDate(df.rows[i]["Entry Date"]) : i \in Range(view)} \ {NaT}

\* The values of a numeric column in view, as floats.
ViewNums(df, view, col) == {FloatCell(df.rows[i][col].s) : i \in NonNull(df, view, col)}

\* sorted(non_null.astype(str).unique())
ViewOptions(df, view, col) == {AsStr(df.rows[i][col]) : i \in NonNull(df, view, col)}

DateControl(col, dates) ==
    IF dates = {} THEN <<>> ELSE <<DateWidget(col, MinDate(dates), MaxDate(dates))>>

NumControl(col, vals) ==
    IF MinNum(vals) # MaxNum(vals)
    THEN <<SliderWidget(col, MinNum(vals), MaxNum(vals))>>
    ELSE <<CheckboxWidget(col, MinNum(vals))>>

TextControl(col, opts) ==
    IF Cardinality(opts) <= MaxOptions THEN <<MultiWidget(col, opts)>> ELSE <<TextWidget(col)>>

\* The widget the loop creates for a column of the rows still in view: none,
\* or one widget with its default value.
RenderWidget(df, view, col) ==
    IF NonNull(df, view, col) = {} THEN <<>>
    ELSE IF col = "Entry Date" THEN DateControl(col, ViewDates(df, view))
    ELSE IF df.dtype[col] \in {"int64", "float64"} THEN NumControl(col, ViewNums(df, view, col))
    ELSE TextControl(col, ViewOptions(df, view, col))

\* The boolean mask of a widget at row i of the table.
Pass(df, w, i) ==
    CASE w.kind = "date" ->
            \/ w.partial
            \/ /\ ToDate(df.rows[i][w.col]).k = "date"
               /\ DateLE(w.vlo, ToDate(df.rows[i][w.col]))
               /\ DateLE(ToDate(df.rows[i][w.col]), w.vhi)
      [] w.kind = "slider" ->
            /\ ~IsNull(df.rows[i][w.col])
            /\ NumLE(w.vlo.s, df.rows[i][w.col].s)
            /\ NumLE(df.rows[i][w.col].s, w.vhi.s)
      [] w.kind = "checkbox" ->
            ~w.vchk \/ (~IsNull(df.rows[i][w.col]) /\ df.rows[i][w.col].s = w.lo.s)
      [] w.kind = "multiselect" ->
            w.vset = {} \/ AsStr(df.rows[i][w.col]) \in w.vset
      [] OTHER ->
            w.vtxt = <<>> \/ RegexSearch(w.vtxt, AsStr(df.rows[i][w.col]))

\* filtered = filtered[mask] for the widget w.
ApplyWidget(df, acc, w) ==
    [view |-> SelectSeq(acc.view, LAMBDA i : Pass(df, w, i)),
     widgets |-> Append(acc.widgets, w)]

\* One iteration of the loop over EXPECTED_COLS; r is what RenderWidget gave.
FilterStep(df, prev, acc, r) ==
    IF r = <<>> THEN acc ELSE ApplyWidget(df, acc, Current(prev, r[1]))

\* The loop over EXPECTED_COLS from column k on.
RECURSIVE FilterColumns(_, _, _, _)
FilterColumns(df, prev, acc, k) ==
    IF k > Len(EXPECTED_COLS) THEN acc
    ELSE FilterColumns(df, prev,
            FilterStep(df, prev, acc, RenderWidget(df, acc.view, EXPECTED_COLS[k])), k + 1)

\* The global text search over the object columns.
GlobalSearch(df, acc, term) ==
    [acc EXCEPT !.view =
        IF term = <<>> THEN @
        ELSE SelectSeq(@, LAMBDA i :
                \E c \in {x \in Range(df.cols) : df.dtype[x] = "object"} :
                    RegexSearch(term, AsStr(df.rows[i][c])))]

\* Lines 224-290: the filtered view of df_full, as positions of df_full in
\* order, and the widgets created.  prev holds the widgets' values.
FilterEngine(df, prev, term) ==
    GlobalSearch(df,
        FilterColumns(df, prev, [view |-> [i \in 1..Len(df.rows) |-> i], widgets |-> <<>>], 1),
        term)

(***************************************************************************)
(* Inputs of the model                                                     *)
(***************************************************************************)
sDrRao == <<"D", "r", ".", " ", "R", "a", "o">>

sDrRaoLower == <<"d", "r", ".", " ", "r", "a", "o">>

sDrShort == <<" ", "D", "r", " ">>

sAsha == <<"A", "s", "h", "a">>

sAshaUpper == <<"A", "S", "H", "A">>

sAsShort == <<"A", "s">>

sRavi == <<"R", "a", "v", "i">>

sPune == <<" ", "P", "u", "n", "e">>

sFlu == <<"F", "l", "u">>

sOld == <<"o", "l", "d">>

mPlain == <<"9", "8", "7", "6", "5", "4", "3", "2", "1", "0">>

mOther == <<"9", "8", "7", "6", "5", "4", "3", "2", "1", "1">>

mLeadingZero == <<"0", "1", "2", "3", "4", "5", "6", "7", "8", "9">>

mEightDigits == <<"9", "8", "7", "6", "5", "4", "3", "2">>

mHyphen == <<"9", "8", "7", "6", "5", "-", "4", "3", "2", "1">>

mSpaced == <<" ", "9", "8", "7", "6", "5", "4", "3", "2", "1", "0">>

mArabicIndic == [i \in 1..10 |-> "U0663"]

MobileInputs == {mPlain, mOther, mLeadingZero, mEightDigits, mHyphen, mSpaced, mArabicIndic}

DoctorInputs == {sDrRao, sDrRaoLower, sDrShort}

PatientInputs == {sAsha, sAshaUpper, sAsShort}

CityInputs == {sPune, <<>>}

DiseaseInputs == {sFlu, <<"x", " ">>}

\* st.date_input returns a datetime.date; the number inputs return ints.
\* Every combination of valid and invalid field values.
AllForms ==
    [entry_date : {DateCell(2024, 2, 29)},
     dr_name : DoctorInputs,
     area_code : {IntCell(<<"1", "2">>)},
     city : CityInputs,
     patient_name : PatientInputs,
     mobile_no : MobileInputs,
     disease : DiseaseInputs,
     goal_amount : {IntCell(<<"1", "0", "0">>)}]

MkForm(dr, patient, mobile) ==
    [entry_date |-> DateCell(2024, 2, 29), dr_name |-> dr, area_code |-> IntCell(<<"1", "2">>),
     city |-> sPune, patient_name |-> patient, mobile_no |-> mobile, disease |-> sFlu,
     goal_amount |-> IntCell(<<"1", "0", "0">>)]

\* The forms submitted in a session: one person with the names in two
\* spellings and two numbers, the same person with a number in non-ASCII
\* digits and another date, and a form with two invalid fields.
FormInputs ==
    {MkForm(n[1], n[2], m) :
        n \in {<<sDrRao, sAsha>>, <<sDrRaoLower, sAshaUpper>>},
        m \in {mPlain, mLeadingZero}}
    \cup {[MkForm(sDrRao, sAsha, mArabicIndic) EXCEPT !.entry_date = DateCell(2024, 1, 5)],
          MkForm(sDrShort, sAsha, mHyphen)}

DefaultForm ==
    [entry_date |-> DateCell(2024, 2, 29), dr_name |-> <<>>, area_code |-> IntCell(<<"0">>),
     city |-> <<>>, patient_name |-> <<>>, mobile_no |-> <<>>, disease |-> <<>>,
     goal_amount |-> IntCell(<<"0">>)]

\* Files found on disk at start: none, a header-only file, and a file written
\* by another tool with reordered, missing and extra columns.
LegacyHeaderOnly == [exists |-> TRUE, header |-> EXPECTED_COLS, rows |-> <<>>]

LegacyReordered ==
    [exists |-> TRUE,
     header |-> <<"Patient Name", "Doctor Name", "Notes", "Mobile No", "Entry Date">>,
     rows |-> << <<sRavi, sDrRao, sOld, mOther,
                   <<"2", "0", "2", "3", "-", "1", "2", "-", "3", "1">> >> >>]

\* A file in the expected layout with an unreadable date and empty fields.
LegacyGaps ==
    [exists |-> TRUE,
     header |-> EXPECTED_COLS,
     rows |-> << <<<<"T", "B", "D">>, sDrRao, <<>>, <<>>, sRavi, mOther, sFlu, <<"5", "0">>>> >>]

InitialFiles == {NoFile, LegacyHeaderOnly, LegacyReordered, LegacyGaps}

sProfSen == <<"P", "r", "o", "f", " ", "S", "e", "n">>

sIndra == <<"I", "n", "d", "r", "a">>

sPuneCity == <<"P", "u", "n", "e">>

dJan05 == <<"2", "0", "2", "4", "-", "0", "1", "-", "0", "5">>

dFeb29 == <<"2", "0", "2", "4", "-", "0", "2", "-", "2", "9">>

n12 == <<"1", "2">>

n100 == <<"1", "0", "0">>

n200 == <<"2", "0", "0">>

n300 == <<"3", "0", "0">>

n400 == <<"4", "0", "0">>

n500 == <<"5", "0", "0">>

\* A registry of five records with Goal Amounts 100..500, as save_data writes it.
FiveGoals ==
    [exists |-> TRUE,
     header |-> EXPECTED_COLS,
     rows |-> << <<dJan05, sDrRao, n12, sPuneCity, sAsha, mPlain, sFlu, n100>>,
                 <<dJan05, sDrRao, n12, sPuneCity, sAsha, mPlain, sFlu, n200>>,
                 <<dFeb29, sProfSen, n12, sPuneCity, sIndra, mPlain, sFlu, n300>>,
                 <<dFeb29, sDrRao, n12, sPuneCity, sAsha, mPlain, sFlu, n400>>,
                 <<dFeb29, sDrRao, n12, sPuneCity, sAsha, mPlain, sFlu, n500>> >>]

\* A registry in which one record has no Area Code and all share one Goal Amount.
OneGoal ==
    [exists |-> TRUE,
     header |-> EXPECTED_COLS,
     rows |-> << <<dJan05, sDrRao, n12, sPuneCity, sAsha, mPlain, sFlu, n100>>,
                 <<dFeb29, sDrRao, <<>>, sPuneCity, sAsha, mPlain, sFlu, n100>>,
                 <<dFeb29, sDrRao, n12, sPuneCity, sAsha, mArabicIndic, sFlu, n100>> >>]

FilterFiles == {FiveGoals, OneGoal}

\* What the user can pick in the sidebar.
DatePicks == {DateCell(2024, 1, 5), DateCell(2024, 1, 20), DateCell(2024, 2, 29)}

SliderPicks == {FloatCell(n) : n \in {n100, n200, n300, n400, n500}}

Terms == {<<>>, <<"d", "r", ".">>, <<"2", "0", "2", "4">>, <<"s", "e", "n">>}

\* Most sidebar changes in one session of the model.
MaxChanges == 2

\* Most rows the registry holds in the model.
MaxRows == 2

(***************************************************************************)
(* The session                                                             *)
(***************************************************************************)
VARIABLES
    file,      \* Patients_Data.csv
    form,      \* the values held by the form's widgets
    sel,       \* the selection held by the row multiselect
    shown,     \* which buttons the last run created
    out,       \* what the last run reported: errors, duplicates, message
    lastOp,    \* what started the last run
    prevFile,  \* history: the file before the last run
    pending,   \* history: the duplicates the last submit run reported
    origin,    \* history: for each row of the file, the form it came from
    prevOrigin, \* history: origin before the last run
    sidebar,   \* the sidebar: widgets with their values, search term, view
    sessions   \* runs in progress when two browser sessions share the file

vars == <<file, form, sel, shown, out, lastOp, prevFile, pending, origin, prevOrigin, sidebar,
          sessions>>

Sessions == {1, 2}

\* A session no run of which has started.
IdleSession ==
    [pc |-> "idle", op |-> "none", fm |-> DefaultForm, rows |-> {}, df |-> EmptyFrame,
     stale |-> FALSE, msg |-> "none"]

Legacy == [legacy |-> TRUE, form |-> DefaultForm]

Entered(fm) == [legacy |-> FALSE, form |-> fm]

\* The sidebar a run leaves: the view over a fresh load of the file.
Sidebar(f, prev, term, n) == FilterEngine(LoadData(f), prev, term) @@ [term |-> term, n |-> n]

Init ==
    /\ file \in InitialFiles
    /\ form = DefaultForm
    /\ sel = {}
    /\ shown = [dupButtons |-> FALSE, delButton |-> FALSE]
    /\ out = [errors |-> <<>>, valid |-> FALSE, dup |-> {}, msg |-> "none"]
    /\ lastOp = "start"
    /\ prevFile = file
    /\ pending = {}
    /\ origin = [i \in 1..Len(file.rows) |-> Legacy]
    /\ prevOrigin = origin
    /\ sidebar = Sidebar(file, <<>>, <<>>, 0)
    /\ sessions = [s \in Sessions |-> IdleSession]

\* What a run leaves behind: r is what the script returned up to the
\* registry, (prev, term) the values the sidebar widgets hold.
Commit(r, trigger, fm, prev, term, n) ==
    /\ sidebar' = Sidebar(r.file, prev, term, n)
    /\ file' = r.file
    /\ form' = fm
    /\ sel' = r.sel
    /\ shown' = [dupButtons |-> r.dupButtons, delButton |-> r.delButton]
    /\ out' = [errors |-> r.errors, valid |-> r.valid, dup |-> r.dup, msg |-> r.msg]
    /\ lastOp' = trigger
    /\ prevFile' = file
    /\ pending' = IF trigger = "submit" THEN r.dup
                  ELSE IF trigger \in {"dupDelete", "dupKeep", "dupCancel"} THEN pending
                  ELSE {}
    /\ origin' = DropSeq(origin, r.removed)
                    \o (IF r.appended THEN <<Entered(fm)>> ELSE <<>>)
    /\ prevOrigin' = origin
    /\ sessions' = sessions

\* One run of the script.
Run(trigger, fm, selection) ==
    Commit(RunScript(file, trigger, fm, selection), trigger, fm,
           sidebar.widgets, sidebar.term, sidebar.n)

\* The user fills the form and presses "Save Record".
Submit ==
    /\ Len(file.rows) < MaxRows
    /\ \E fm \in FormInputs : Run("submit", fm, sel)

\* The user presses one of the three buttons shown with the duplicates.
ClickDupDelete == shown.dupButtons /\ Run("dupDelete", form, sel)

ClickDupKeep == shown.dupButtons /\ Run("dupKeep", form, sel)

ClickDupCancel == shown.dupButtons /\ Run("dupCancel", form, sel)

\* The user changes the row multiselect.
SelectRows ==
    /\ Len(file.rows) > 0
    /\ \E S \in SUBSET (1..Len(file.rows)) : S # sel /\ Run("rerun", form, S)

\* The user presses "Delete selected rows".
ClickDelete == shown.delButton /\ Run("delete", form, sel)

\* A submit of any combination of field values, as the first interaction.
SubmitAny ==
    /\ lastOp = "start"
    /\ \E fm \in AllForms : Run("submit", fm, sel)

Next ==
    \/ Submit
    \/ ClickDupDelete
    \/ ClickDupKeep
    \/ ClickDupCancel
    \/ SelectRows
    \/ ClickDelete

Spec == Init /\ [][Next]_vars

(***************************************************************************)
(* The session of a user who only works the sidebar                        *)
(***************************************************************************)
InitFilter ==
    /\ file \in FilterFiles
    /\ form = DefaultForm
    /\ sel = {}
    /\ shown = [dupButtons |-> FALSE, delButton |-> FALSE]
    /\ out = [errors |-> <<>>, valid |-> FALSE, dup |-> {}, msg |-> "none"]
    /\ lastOp = "start"
    /\ prevFile = file
    /\ pending = {}
    /\ origin = [i \in 1..Len(file.rows) |-> Legacy]
    /\ prevOrigin = origin
    /\ sidebar = Sidebar(file, <<>>, <<>>, 0)
    /\ sessions = [s \in Sessions |-> IdleSession]

\* A change of a sidebar widget starts a run with the widgets' new values.
RunSidebar(prev, term) ==
    /\ sidebar.n < MaxChanges
    /\ Commit(RunScript(file, "rerun", form, sel), "rerun", form, prev, term, sidebar.n + 1)

SetDateRange ==
    \E k \in 1..Len(sidebar.widgets) :
        /\ sidebar.widgets[k].kind = "date"
        /\ \E d0 \in DatePicks, d1 \in DatePicks, one \in BOOLEAN :
              /\ DateLE(d0, d1)
              /\ one => d0 = d1
              /\ <<d0, d1, one>> # <<sidebar.widgets[k].vlo, sidebar.widgets[k].vhi,
                                     sidebar.widgets[k].partial>>
              /\ RunSidebar([sidebar.widgets EXCEPT ![k].vlo = d0, ![k].vhi = d1,
                                                    ![k].partial = one], sidebar.term)

SetSlider ==
    \E k \in 1..Len(sidebar.widgets) :
        /\ sidebar.widgets[k].kind = "slider"
        /\ \E lo \in SliderPicks, hi \in SliderPicks :
              /\ NumLE(sidebar.widgets[k].lo.s, lo.s)
              /\ NumLE(lo.s, hi.s)
              /\ NumLE(hi.s, sidebar.widgets[k].hi.s)
              /\ <<lo, hi>> # <<sidebar.widgets[k].vlo, sidebar.widgets[k].vhi>>
              /\ RunSidebar([sidebar.widgets EXCEPT ![k].vlo = lo, ![k].vhi = hi], sidebar.term)

ToggleCheckbox ==
    \E k \in 1..Len(sidebar.widgets) :
        /\ sidebar.widgets[k].kind = "checkbox"
        /\ RunSidebar([sidebar.widgets EXCEPT ![k].vchk = ~@], sidebar.term)

SetMultiselect ==
    \E k \in 1..Len(sidebar.widgets) :
        /\ sidebar.widgets[k].kind = "multiselect"
        /\ \E S \in SUBSET sidebar.widgets[k].opts :
              /\ S # sidebar.widgets[k].vset
              /\ RunSidebar([sidebar.widgets EXCEPT ![k].vset = S], sidebar.term)

SetGlobalTerm ==
    \E t \in Terms : t # sidebar.term /\ RunSidebar(sidebar.widgets, t)

NextFilter ==
    \/ SetDateRange
    \/ SetSlider
    \/ ToggleCheckbox
    \/ SetMultiselect
    \/ SetGlobalTerm

SpecFilter == InitFilter /\ [][NextFilter]_vars

\* The submit handler alone, over every combination of field values.
NextValid == SubmitAny

SpecValid == Init /\ [][NextValid]_vars

(***************************************************************************)
(* Two sessions on one file                                                *)
(*                                                                         *)
(* Each browser session runs the script in its own thread.  A run reads    *)
(* the file with load_data and writes it with save_data; nothing keeps     *)
(* another session's run from reading or writing between the two.  Each    *)
(* session makes one run here: a submit or a click on "Delete selected     *)
(* rows" with rows it selected while the file was prevFile.                *)
(***************************************************************************)
\* The registries the two sessions start from, written by the application.
TwoFiles == {[FiveGoals EXCEPT !.rows = SubSeq(@, 4 - n, 3)] : n \in 1..2}

\* What a session submits: a record already in the file, a new one, and a
\* form with invalid fields.
TwoForms == {MkForm(sDrRao, sAsha, mPlain), MkForm(sDrRao, sAsha, mOther),
             MkForm(sDrShort, sAsha, mHyphen)}

InitTwo ==
    /\ file \in TwoFiles
    /\ form = DefaultForm
    /\ sel = {}
    /\ shown = [dupButtons |-> FALSE, delButton |-> FALSE]
    /\ out = [errors |-> <<>>, valid |-> FALSE, dup |-> {}, msg |-> "none"]
    /\ lastOp = "start"
    /\ prevFile = file
    /\ pending = {}
    /\ origin = [i \in 1..Len(file.rows) |-> Legacy]
    /\ prevOrigin = origin
    /\ sidebar = Sidebar(file, <<>>, <<>>, 0)
    /\ sessions = [s \in Sessions |-> IdleSession]

Shared == <<form, sel, shown, out, lastOp, prevFile, pending, origin, prevOrigin, sidebar>>

\* Lines 123-168 of a submit run: validation, load_data for df_existing, mask_dup.
Checked(f, fm) ==
    IF Validate(fm) # <<>>
    THEN [IdleSession EXCEPT !.pc = "done", !.op = "append", !.fm = fm,
                             !.msg = "correct the errors"]
    ELSE IF MaskDup(LoadData(f), fm) # {}
    THEN [IdleSession EXCEPT !.pc = "done", !.op = "append", !.fm = fm,
                             !.msg = "duplicates found"]
    ELSE [IdleSession EXCEPT !.pc = "checked", !.op = "append", !.fm = fm]

BeginSubmit(s) ==
    /\ sessions[s].pc = "idle"
    /\ \E fm \in TwoForms : sessions' = [sessions EXCEPT ![s] = Checked(file, fm)]
    /\ UNCHANGED <<file, Shared>>

\* Line 61: append_row reads the file.
AppendLoad(s) ==
    /\ sessions[s].pc = "checked"
    /\ sessions' = [sessions EXCEPT ![s].pc = "loaded", ![s].df = LoadData(file)]
    /\ UNCHANGED <<file, Shared>>

\* A save by session s: a session holding a table it has read now holds an
\* old one.
AfterSave(s, msg) ==
    [t \in Sessions |->
        IF t = s THEN [sessions[t] EXCEPT !.pc = "done", !.msg = msg]
        ELSE IF sessions[t].pc \in {"loaded", "registry"} THEN [sessions[t] EXCEPT !.stale = TRUE]
        ELSE sessions[t]]

\* An append that reads the file again when it writes.
AppendWriteFresh(f, ses) == AppendRow(f, NewRow(ses.fm))

\* The file a session's append leaves: save_data writes the table read at
\* line 61, with the new row, over whatever f holds now.
AppendWrite(f, ses) == SaveData(Concat(ses.df, NewRow(ses.fm)))

\* Lines 62-64 and 189: append_row writes the file; the run reports success.
AppendSave(s) ==
    /\ sessions[s].pc = "loaded"
    /\ file' = AppendWrite(file, sessions[s])
    /\ sessions' = AfterSave(s, "saved")
    /\ UNCHANGED Shared

\* Lines 198-214 of a run started by the delete button: the table is read;
\* the multiselect keeps the selection only if its options are the same.
Registry(f, f0, S) ==
    IF f = f0 /\ Len(LoadData(f).rows) > 0
    THEN [IdleSession EXCEPT !.pc = "registry", !.op = "delete", !.rows = S,
                             !.df = LoadData(f)]
    ELSE [IdleSession EXCEPT !.pc = "done", !.op = "delete", !.rows = S]

BeginDelete(s) ==
    /\ sessions[s].pc = "idle"
    /\ \E S \in (SUBSET (1..Len(prevFile.rows))) \ {{}} :
          sessions' = [sessions EXCEPT ![s] = Registry(file, prevFile, S)]
    /\ UNCHANGED <<file, Shared>>

\* The file a session's delete leaves.
DeleteWrite(f, ses) == SaveData(Drop(ses.df, ses.rows))

\* Lines 215-217: the rows are dropped from the table read at line 198 and
\* the file is written; the run reports success.
DeleteSave(s) ==
    /\ sessions[s].pc = "registry"
    /\ file' = DeleteWrite(file, sessions[s])
    /\ sessions' = AfterSave(s, "deleted")
    /\ UNCHANGED Shared

NextTwo ==
    \E s \in Sessions :
        \/ BeginSubmit(s)
        \/ AppendLoad(s)
        \/ AppendSave(s)
        \/ BeginDelete(s)
        \/ DeleteSave(s)

SpecTwo == InitTwo /\ [][NextTwo]_vars

(***************************************************************************)
(* Properties of the session                                               *)
(***************************************************************************)
\* ^[0-9]{10}$
AsciiTen(s) == Len(s) = 10 /\ \A i \in 1..Len(s) : s[i] \in AsciiDigits

Count(seq, x) == Cardinality({i \in 1..Len(seq) : seq[i] = x})

\* The text fields save_data writes for the record a form describes.
RecordText(fm) == SaveData(NewRow(fm)).rows[1]

\* C1: after a submit that reported k >= 1 duplicates, a click on "delete
\* duplicate(s) and save" leaves old - k + 1 rows with the candidate last, a
\* click on "save anyway" leaves old + 1 rows with the candidate last and
\* nothing removed, and a click on "cancel" leaves the file unchanged.
C1_ResolutionExecutes ==
    /\ lastOp = "dupDelete" =>
          /\ Len(file.rows) = Len(prevFile.rows) - Cardinality(pending) + 1
          /\ file.rows[Len(file.rows)] = RecordText(form)
    /\ lastOp = "dupKeep" =>
          /\ Len(file.rows) = Len(prevFile.rows) + 1
          /\ file.rows[Len(file.rows)] = RecordText(form)
    /\ lastOp = "dupCancel" => file = prevFile

\* The identity of a record: names compared without case, mobile exactly.
SameKey(a, b) ==
    /\ Lower(Strip(a.dr_name)) = Lower(Strip(b.dr_name))
    /\ Lower(Strip(a.patient_name)) = Lower(Strip(b.patient_name))
    /\ Strip(a.mobile_no) = Strip(b.mobile_no)

\* C2: on a validated submit against a table written by earlier validated
\* submits with 10 ASCII digit mobiles, the rows reported as duplicates are
\* exactly the rows with the candidate's names (ignoring case) and mobile.
C2_DuplicateIff ==
    (/\ lastOp = "submit" /\ out.valid
     /\ \A i \in 1..Len(prevOrigin) :
           ~prevOrigin[i].legacy /\ AsciiTen(prevOrigin[i].form.mobile_no)
     /\ AsciiTen(form.mobile_no))
    => out.dup = {i \in 1..Len(prevOrigin) : SameKey(prevOrigin[i].form, form)}

\* C3: every row accepted through validation with a 10 ASCII digit mobile
\* keeps the fields it was saved with in the file, and its Mobile No reads as
\* the entered digits in the table load returns.
C3_MobileKept ==
    /\ Len(origin) = Len(file.rows)
    /\ \A i \in 1..Len(origin) :
          (~origin[i].legacy /\ AsciiTen(origin[i].form.mobile_no)) =>
              /\ file.rows[i] = RecordText(origin[i].form)
              /\ AsStr(LoadData(file).rows[i]["Mobile No"]) = origin[i].form.mobile_no

\* The fields of a form that fail the check the handler applies to them,
\* named by their error message.
FailingFields(fm) ==
    {e \in {ErrDoctor, ErrArea, ErrCity, ErrPatient, ErrMobile, ErrDisease, ErrGoal} :
        \/ e = ErrDoctor /\ ~ValidText(fm.dr_name)
        \/ e = ErrArea /\ ~IsNumeric(fm.area_code)
        \/ e = ErrCity /\ ~ValidText(fm.city)
        \/ e = ErrPatient /\ ~ValidText(fm.patient_name)
        \/ e = ErrMobile /\ ~ValidMobile(fm.mobile_no)
        \/ e = ErrDisease /\ ~ValidText(fm.disease)
        \/ e = ErrGoal /\ ~IsNumeric(fm.goal_amount)}

C7_MobileIff ==
    lastOp = "submit" => ((ErrMobile \notin Range(out.errors)) <=> AsciiTen(form.mobile_no))

\* The calendar day of an Entry Date value; no day for a value that is not a date.
DayOf(c) == IF c.k = "date" THEN <<c.y, c.m, c.d>> ELSE <<0, 0, 0>>

\* The tables a run can hand to save_data when load_data returned df: df
\* itself, df with a validated candidate appended, df with rows dropped.
TablesFrom(df) ==
    {df}
    \cup {Concat(df, NewRow(fm)) : fm \in {g \in FormInputs : Validate(g) = <<>>}}
    \cup {Drop(df, S) : S \in SUBSET (1..Len(df.rows))}

\* back is what load returns for the file save wrote from df.
SameTable(df, back) ==
    /\ Len(back.rows) = Len(df.rows)
    /\ back.cols = EXPECTED_COLS
    /\ \A i \in 1..Len(df.rows) :
          /\ DOMAIN back.rows[i] = Range(EXPECTED_COLS)
          /\ DayOf(back.rows[i]["Entry Date"]) = DayOf(df.rows[i]["Entry Date"])

\* C4: a table saved and loaded again has the same number of rows in the
\* same order, the eight columns in the fixed order, and the same Entry Date
\* day in every row.
C4_RoundTrip == \A df \in TablesFrom(LoadData(file)) : SameTable(df, LoadData(SaveData(df)))

\* The file holds a row with a date and a row without one, after an append.
C4_Witness ==
    /\ lastOp = "submit" /\ out.msg = "saved"
    /\ \E i, j \in 1..Len(file.rows) :
          /\ LoadData(file).rows[i]["Entry Date"].k = "date"
          /\ LoadData(file).rows[j]["Entry Date"].k = "nat"

\* df is what load returns for file f.
LoadedSchema(f, df) ==
    /\ df.cols = EXPECTED_COLS
    /\ \A i \in 1..Len(df.rows) :
          /\ DOMAIN df.rows[i] = Range(EXPECTED_COLS)
          /\ \A c \in Range(EXPECTED_COLS) \ Range(f.header) :
                f.exists => df.rows[i][c] = StrCell(<<>>)

\* C5: the table load returns has the eight expected columns in the fixed
\* order, with empty text in the columns the file lacks, and the file a run
\* has written has the eight columns in that order in every row.
C5_Schema ==
    /\ LoadedSchema(file, LoadData(file))
    /\ file # prevFile =>
          /\ file.header = EXPECTED_COLS
          /\ \A i \in 1..Len(file.rows) : Len(file.rows[i]) = Len(EXPECTED_COLS)

\* A file with reordered, missing and extra columns was loaded, a row was
\* deleted from it and the remaining table was written.
C5_Witness ==
    /\ lastOp = "delete"
    /\ prevFile.header # EXPECTED_COLS
    /\ Len(prevFile.rows) >= 1
    /\ file.header = EXPECTED_COLS

\* C8: with every sidebar widget at its default and no search term, the
\* filtered view holds every row of the loaded table.
C8_DefaultShowsAll ==
    (/\ sidebar.term = <<>>
     /\ \A k \in 1..Len(sidebar.widgets) :
           /\ sidebar.widgets[k].vlo = sidebar.widgets[k].lo
           /\ sidebar.widgets[k].vhi = sidebar.widgets[k].hi
           /\ sidebar.widgets[k].vset = sidebar.widgets[k].opts
           /\ ~sidebar.widgets[k].partial /\ ~sidebar.widgets[k].vchk
           /\ sidebar.widgets[k].vtxt = <<>>)
    => sidebar.view = [i \in 1..Len(file.rows) |-> i]

\* s contains t, compared without case.
Contains(t, s) ==
    \E start \in 1..(Len(s) - Len(t) + 1) :
        \A k \in 1..Len(t) : LowerChar(t[k]) = LowerChar(s[start + k - 1])

\* The columns of df that hold text rather than numbers.
TextColumns(df) == {c \in Range(df.cols) : df.dtype[c] \notin {"int64", "float64"}}

\* The predicate a widget with its value states about a value.
Satisfies(w, c) ==
    CASE w.kind = "date" ->
            w.partial \/ (ToDate(c).k = "date" /\ DateLE(w.vlo, ToDate(c)) /\ DateLE(ToDate(c), w.vhi))
      [] w.kind = "slider" -> ~IsNull(c) /\ NumLE(w.vlo.s, c.s) /\ NumLE(c.s, w.vhi.s)
      [] w.kind = "checkbox" -> w.vchk => (~IsNull(c) /\ c.s = w.lo.s)
      [] w.kind = "multiselect" -> w.vset # {} => AsStr(c) \in w.vset
      [] OTHER -> Contains(w.vtxt, AsStr(c))

\* Row i of df satisfies every widget and holds the term in a text column.
Selected(df, ws, term, i) ==
    /\ \A k \in 1..Len(ws) : Satisfies(ws[k], df.rows[i][ws[k].col])
    /\ term # <<>> =>
          \E c \in TextColumns(df) : Contains(term, AsStr(df.rows[i][c]))

ViewOf(df, ws, term) ==
    SelectSeq([i \in 1..Len(df.rows) |-> i], LAMBDA i : Selected(df, ws, term, i))

\* C9: the filtered view is the rows of the table, in order, that satisfy
\* the predicate of every sidebar widget and, when a search term is given,
\* contain it without regard to case in at least one text column.
C9_Composition == sidebar.view = ViewOf(LoadData(file), sidebar.widgets, sidebar.term)

\* The file a session's operation leaves when it runs alone on file f.
Alone(f, ses) ==
    IF ses.op = "append" THEN AppendRow(f, NewRow(ses.fm))
    ELSE SaveData(Drop(LoadData(f), ses.rows))

Succeeded(ses) == ses.pc = "done" /\ ses.msg \in {"saved", "deleted"}

\* C10: when both sessions have reported success and one of them wrote a
\* table it had read before the other's write, the file is what that
\* session alone would have left: the other session's change is not in it.
C10_LostUpdate ==
    \A s \in Sessions :
        (Succeeded(sessions[s]) /\ Succeeded(sessions[3 - s]) /\ sessions[s].stale)
        => file = Alone(prevFile, sessions[s])

\* Both sessions reported success and the record one of them appended is
\* not in the file, or the rows one of them deleted are all still there.
C10_Witness ==
    \E s \in Sessions :
        /\ Succeeded(sessions[s]) /\ Succeeded(sessions[3 - s]) /\ sessions[s].stale
        /\ \/ /\ sessions[3 - s].op = "append"
              /\ RecordText(sessions[3 - s].fm) \notin Range(file.rows)
           \/ /\ sessions[3 - s].op = "delete"
              /\ sessions[s].op = "append"
              /\ SubSeq(file.rows, 1, Len(prevFile.rows)) = prevFile.rows

====
